---- MODULE Spec2Model ----
(***************************************************************************)
(* The WebSocket relay server (websocket-server.js, kept in                *)
(* src/unnamed/part_001 lines 215-310) as a state machine.                  *)
(*                                                                         *)
(* Node runs every handler to completion on one thread, so each handler of *)
(* the server is one action.  The `ws` library the server requires (line   *)
(* 218) is modelled by what it documents: a server-side socket is OPEN     *)
(* when 'connection' fires, stays in wss.clients until its 'close' event,  *)
(* send()/ping() throw only in CONNECTING and discard the data in CLOSING  *)
(* or CLOSED, a write on a broken socket fails later through 'error', and  *)
(* the callback of wss.close() runs once the listener's sockets are gone.  *)
(* Timestamps of the notifications are left out: no claim reads them.      *)
(*                                                                         *)
(* Spec is the server; BurstSpec is the server with frames of one          *)
(* connection arriving together, for the order in which they are handled;  *)
(* ClientSpec is the example client (src/websocket-client.js) with the     *)
(* server as its environment.                                              *)
(***************************************************************************)
EXTENDS Integers, Sequences, FiniteSets, TLC

\* Number of connection identifiers the model lets the listener accept.
MaxConns == 3

Conn == 1..MaxConns

\* src/unnamed/part_001:285, the period of setInterval in milliseconds.
PingIntervalMs == 30000

\* Updates the model lets the example client send.
MaxUpdates == 10

\* src/websocket-client.js:32, the period of the client's setInterval.
UpdateIntervalMs == 5000

\* Raw inbound frames: two JSON texts and one text that is not JSON.
RawPayloads == {"{\"a\":1}", "{\"x\":2}", "not-json"}

VARIABLES
    readyState,    \* ws.readyState of each connection
    clients,       \* wss.clients, the registry
    pingInterval,  \* TRUE while the connection's setInterval timer is active
    socket,        \* the TCP socket: "none", "up", "half" (the peer's side
                   \* is closed or failed, no frame arrives any more), or
                   \* "ended" (destroyed: the listener no longer counts it)
    broken,        \* the socket fails writes; the server has not noticed yet
    phase,         \* "running", "shutting" (SIGINT handled), "exited", "crashed"
    last,          \* the step taken last: [op, conn, raw, pre, live, at]
    out,           \* what that handler sent, in order
    welcomes,      \* welcome notifications sent to each connection so far
    closeRuns,     \* times the 'close' handlers ran for each connection
    atSignal,      \* wss.clients as the SIGINT handler found it
    liveness,      \* "probe-outstanding" from a ping until its pong arrives,
                   \* else "awaiting-probe"; the server itself keeps no such
                   \* record, the pong handler only logs
    pending        \* frames of one connection that have arrived together
                   \* and are not handled yet: [conn, frames]

serverVars == <<readyState, clients, pingInterval, socket, broken, phase,
                last, out, welcomes, closeRuns, atSignal, liveness, pending>>

\* The example client (websocket-client.js), one process with one socket.
VARIABLES
    clientReadyState,  \* ws.readyState of the client's socket
    messageInterval,   \* TRUE while the client's setInterval timer is active
    messageCount,      \* the counter of the 'open' handler
    greetings,         \* greetings sent so far
    clientPhase,       \* "running" or "exited"
    clientLast,        \* the client's last step: [op, pre, count, raw, at]
    clientOut          \* what that step sent, in order

clientVars == <<clientReadyState, messageInterval, messageCount, greetings,
                clientPhase, clientLast, clientOut>>

vars == <<serverVars, clientVars>>

(***************************************************************************)
(* Pure parts of the handlers.                                             *)
(***************************************************************************)

\* JSON.parse(data), line 241: the parsed value, or a thrown SyntaxError.
JSONParse(raw) ==
    CASE raw = "{\"a\":1}" -> [threw |-> FALSE, value |-> <<"a", 1>>]
      [] raw = "{\"x\":2}" -> [threw |-> FALSE, value |-> <<"x", 2>>]
      [] OTHER             -> [threw |-> TRUE,  value |-> <<>>]

\* The four notifications the server builds (lines 230-234, 244-248,
\* 253-257, 263-266), without their timestamps.
WelcomeMsg == [type |-> "welcome", message |-> "Connected to WebSocket server"]

EchoMsg(message) == [type |-> "echo", original |-> message]

BroadcastMsg(message) == [type |-> "broadcast", message |-> message]

ErrorMsg == [type |-> "error", message |-> "Invalid JSON format"]

\* A send() that throws when the write fails, instead of failing later.
SendOutcomeThrows(st, isBroken) ==
    IF st = "CONNECTING" THEN "throw"
    ELSE IF st # "OPEN" THEN "discarded"
    ELSE IF isBroken THEN "throw"
    ELSE "delivered"

\* A send() that throws whenever the socket is not OPEN, instead of
\* discarding the data of a CLOSING or CLOSED socket.
SendOutcomeThrowsUnlessOpen(st, isBroken) ==
    IF st # "OPEN" THEN "throw"
    ELSE IF isBroken THEN "lost"
    ELSE "delivered"

\* What ws.send(data) / ws.ping() does with a socket in state st:
\* "throw" (CONNECTING), "discarded" (CLOSING, CLOSED), "lost" (OPEN on a
\* broken socket: the write fails later), or "delivered".
SendOutcome(st, isBroken) ==
    IF st = "CONNECTING" THEN "throw"
    ELSE IF st # "OPEN" THEN "discarded"
    ELSE IF isBroken THEN "lost"
    ELSE "delivered"

\* One call client.send(JSON.stringify(data)) as the log records it: a text
\* frame carrying data, with the state the socket was in.
Sent(to, data, rs, brk) ==
    [to |-> to, frame |-> "text", data |-> data, st |-> rs[to],
     result |-> SendOutcome(rs[to], brk[to])]

\* One call ws.ping() (line 283): a control frame without payload.
Pinged(to, rs, brk) ==
    [to |-> to, frame |-> "ping", data |-> [type |-> "none"], st |-> rs[to],
     result |-> SendOutcome(rs[to], brk[to])]

\* wss.clients is a Set: forEach visits it in insertion order, which is the
\* order of accept, which is the order of the identifiers.
RECURSIVE ClientOrder(_)
ClientOrder(cl) ==
    IF cl = {} THEN <<>>
    ELSE LET c == CHOOSE x \in cl : \A y \in cl : x <= y
         IN <<c>> \o ClientOrder(cl \ {c})

\* The guard of line 252 without its test of the sender.
IsBroadcastTargetNoSelfTest(client, ws, rs) == rs[client] = "OPEN"

\* Line 252: client !== ws && client.readyState === WebSocket.OPEN.
IsBroadcastTarget(client, ws, rs) == client # ws /\ rs[client] = "OPEN"

\* Lines 251-259: the forEach over wss.clients.  A send that throws leaves
\* the loop; sent is what was tried until then.
RECURSIVE Fanout(_, _, _, _, _)
Fanout(targets, ws, message, rs, brk) ==
    IF targets = <<>> THEN [sent |-> <<>>, threw |-> FALSE]
    ELSE LET client == Head(targets)
             n == Sent(client, BroadcastMsg(message), rs, brk)
             rest == Fanout(Tail(targets), ws, message, rs, brk)
         IN IF ~IsBroadcastTarget(client, ws, rs) THEN rest
            ELSE IF n.result = "throw" THEN [sent |-> <<n>>, threw |-> TRUE]
            ELSE [sent |-> <<n>> \o rest.sent, threw |-> rest.threw]

\* The statements of lines 244-259 in the other order.
BroadcastThenEcho(echo, fanSent) == fanSent \o <<echo>>

\* Lines 244-259: the echo (244-248) is sent, then the forEach runs.
EchoThenBroadcast(echo, fanSent) == <<echo>> \o fanSent

\* A catch block that only logs.
CatchLogsOnly(ws, rs, brk) == <<>>

\* Lines 261-267, the catch block: one error notification to the sender.
CatchSends(ws, rs, brk) == <<Sent(ws, ErrorMsg, rs, brk)>>

\* Lines 237-268, the 'message' handler: what it sends, and whether an
\* exception leaves it (the send inside catch is not itself guarded).
HandleMessage(ws, raw, rs, brk, cl) ==
    LET parsed == JSONParse(raw)
        echo == Sent(ws, EchoMsg(parsed.value), rs, brk)
        fan == Fanout(ClientOrder(cl), ws, parsed.value, rs, brk)
        tried == IF parsed.threw THEN <<>>
                 ELSE IF echo.result = "throw" THEN <<echo>>
                 ELSE EchoThenBroadcast(echo, fan.sent)
        caught == parsed.threw \/ echo.result = "throw" \/ fan.threw
        recover == CatchSends(ws, rs, brk)
    IN [sent |-> IF caught THEN tried \o recover ELSE tried,
        uncaught |-> caught /\ \E i \in DOMAIN recover :
                                   recover[i].result = "throw"]

\* A welcome sent to every registered client, the new one included.
WelcomeToAll(c, cl, rs, brk) ==
    [i \in 1..Cardinality(cl \cup {c}) |->
        Sent(ClientOrder(cl \cup {c})[i], WelcomeMsg, rs, brk)]

\* A connection handler that sends no welcome.
WelcomeOmitted(c, cl, rs, brk) == <<>>

\* Lines 230-234: the welcome, sent on the new socket only.
WelcomeSends(c, cl, rs, brk) == <<Sent(c, WelcomeMsg, rs, brk)>>

\* welcomes after a handler sent log: one more for each welcome in it.
CountWelcomes(w, log) ==
    [c \in Conn |-> w[c] + Cardinality({i \in DOMAIN log :
                        log[i].to = c /\ log[i].data.type = "welcome"})]

\* wss.clients when a socket is accepted: the server object adds it to its
\* Set before 'connection' is emitted (line 226).
Register(c, cl) == cl \cup {c}

\* A close that leaves the socket in the registry.
UnregisterSkipped(c, cl) == cl

\* wss.clients when a socket's 'close' event is emitted (line 276): the
\* server object deletes it from its Set.
Unregister(c, cl) == cl \ {c}

\* A listener that wss.close() leaves accepting until the process ends.
ListeningUntilExit(ph) == ph \in {"running", "shutting"}

\* Whether 'connection' can still be emitted: the listener created at line
\* 221 accepts until wss.close() (line 307), which the SIGINT handler calls
\* in the same turn as the pass over wss.clients (lines 304-306).
Listening(ph) == ph = "running"

(***************************************************************************)
(* The state machine.                                                      *)
(***************************************************************************)

Running == phase \in {"running", "shutting"}

\* The record of a step: the handler or event, its connection (0: none),
\* the raw frame of a 'message', the connection's readyState before the
\* step and its liveness state before the step, and for a timer callback
\* the delay, in milliseconds, after which setInterval ran it.
Event(op, c, raw) ==
    [op |-> op, conn |-> c, raw |-> raw,
     pre |-> IF c \in Conn THEN readyState[c] ELSE "none",
     live |-> IF op \in {"timer", "pong"} THEN liveness[c] ELSE "none",
     at |-> IF op = "timer" THEN PingIntervalMs ELSE 0]

\* The record of a step of the client: the handler, the socket's
\* readyState and the counter before it, the raw frame of a 'message', and
\* for a timer callback its delay in milliseconds.
ClientEvent(op, raw) ==
    [op |-> op, pre |-> clientReadyState, count |-> messageCount,
     raw |-> raw, at |-> IF op = "tick" THEN UpdateIntervalMs ELSE 0]

Init ==
    /\ readyState = [c \in Conn |-> "CONNECTING"]
    /\ clients = {}
    /\ pingInterval = [c \in Conn |-> FALSE]
    /\ socket = [c \in Conn |-> "none"]
    /\ broken = [c \in Conn |-> FALSE]
    /\ phase = "running"
    /\ last = Event("start", 0, "")
    /\ out = <<>>
    /\ welcomes = [c \in Conn |-> 0]
    /\ closeRuns = [c \in Conn |-> 0]
    /\ atSignal = {}
    /\ liveness = [c \in Conn |-> "awaiting-probe"]
    /\ pending = [conn |-> 0, frames |-> <<>>]
    /\ clientReadyState = "CONNECTING"
    /\ messageInterval = FALSE
    /\ messageCount = 0
    /\ greetings = 0
    /\ clientPhase = "running"
    /\ clientLast = ClientEvent("start", "")
    /\ clientOut = <<>>

\* Lines 226-294, wss.on('connection'): the library has opened the socket
\* and added it to wss.clients; the handler sends the welcome, attaches the
\* handlers and starts the timer.  An exception out of the welcome send is
\* uncaught and ends the process before the timer is created.
Accept(c) ==
    /\ Listening(phase)
    /\ readyState[c] = "CONNECTING"
    /\ \A d \in Conn : d < c => readyState[d] # "CONNECTING"
    /\ LET rs == [readyState EXCEPT ![c] = "OPEN"]
           w == WelcomeSends(c, clients, rs, broken)
           threw == \E i \in DOMAIN w : w[i].result = "throw"
       IN /\ readyState' = rs
          /\ clients' = Register(c, clients)
          /\ socket' = [socket EXCEPT ![c] = "up"]
          /\ out' = w
          /\ pingInterval' = [pingInterval EXCEPT ![c] = ~threw]
          /\ phase' = IF threw THEN "crashed" ELSE phase
    /\ welcomes' = CountWelcomes(welcomes, out')
    /\ last' = Event("connection", c, "")
    /\ UNCHANGED <<broken, closeRuns, atSignal,
                   liveness, pending>>
    /\ UNCHANGED clientVars

\* Lines 237-268, ws.on('message').  The library emits 'message' while the
\* socket is OPEN, and also while it is CLOSING after a local close() whose
\* answer from the peer has not arrived yet.  This is the handler; Message
\* and HandlePending say which frame it gets.
OnMessage(c, raw) ==
    /\ Running
    /\ readyState[c] \in {"OPEN", "CLOSING"}
    /\ socket[c] = "up"
    /\ LET h == HandleMessage(c, raw, readyState, broken, clients)
       IN /\ out' = h.sent
          /\ phase' = IF h.uncaught THEN "crashed" ELSE phase
    /\ welcomes' = CountWelcomes(welcomes, out')
    /\ last' = Event("message", c, raw)
    /\ UNCHANGED <<readyState, clients, pingInterval, socket,
                   broken, closeRuns, atSignal, liveness>>
    /\ UNCHANGED clientVars

\* A frame that arrives on its own and is handled at once; frames of the
\* same connection that arrived before it are handled first.
Message(c, raw) ==
    /\ pending.conn # c
    /\ OnMessage(c, raw)
    /\ UNCHANGED pending

\* Two frames of one connection arrive in one read of its socket, m1 ahead
\* of m2; the library will emit 'message' for each.
ArriveBurst(c, m1, m2) ==
    /\ Running
    /\ readyState[c] \in {"OPEN", "CLOSING"}
    /\ socket[c] = "up"
    /\ pending.frames = <<>>
    /\ m1 # m2
    /\ pending' = [conn |-> c, frames |-> <<m1, m2>>]
    /\ last' = Event("arrive", c, "")
    /\ out' = <<>>
    /\ UNCHANGED <<readyState, clients, pingInterval, socket, broken,
                   phase, welcomes, closeRuns, atSignal, liveness>>
    /\ UNCHANGED clientVars

\* An emitter that hands the handler the frame that arrived last.
DequeueNewest(q) ==
    [frame |-> q[Len(q)], rest |-> SubSeq(q, 1, Len(q) - 1)]

\* Line 237, ws.on('message', ...): the library emits 'message' for the
\* frames of a socket one by one, oldest first, and the handler (no await
\* in it) runs to its end inside each emit.
Dequeue(q) == [frame |-> Head(q), rest |-> Tail(q)]

\* Lines 237-268 for the next frame of the burst.
HandlePending ==
    /\ pending.frames # <<>>
    /\ LET d == Dequeue(pending.frames)
       IN /\ OnMessage(pending.conn, d.frame)
          /\ pending' = IF d.rest = <<>>
                        THEN [conn |-> 0, frames |-> <<>>]
                        ELSE [pending EXCEPT !.frames = d.rest]

\* Line 282: the test the timer callback makes before it pings.
PingGuardAbsent(c, rs) == TRUE

PingGuard(c, rs) == rs[c] = "OPEN"

\* A timer callback that closes a connection whose last probe is still
\* unacknowledged.
AfterTimerEvicts(c, rs, live) ==
    IF rs[c] = "OPEN" /\ live[c] = "probe-outstanding"
    THEN [rs EXCEPT ![c] = "CLOSING"]
    ELSE rs

\* Lines 281-285: readyState of the connections after the timer callback,
\* which calls ws.ping() and nothing else, whatever became of earlier
\* probes.
AfterTimer(c, rs, live) == rs

\* Lines 281-285, the setInterval callback, run every PingIntervalMs
\* while the timer is active.
TimerFire(c) ==
    /\ Running
    /\ pingInterval[c]
    /\ readyState' = AfterTimer(c, readyState, liveness)
    /\ LET p == Pinged(c, readyState, broken)
       IN IF PingGuard(c, readyState)
          THEN /\ out' = <<p>>
               /\ phase' = IF p.result = "throw" THEN "crashed" ELSE phase
               /\ liveness' = [liveness EXCEPT ![c] = "probe-outstanding"]
          ELSE /\ out' = <<>>
               /\ phase' = phase
               /\ liveness' = liveness
    /\ last' = Event("timer", c, "")
    /\ UNCHANGED <<clients, pingInterval, socket, broken,
                   welcomes, closeRuns, atSignal,
                   pending>>
    /\ UNCHANGED clientVars

\* A pong handler that answers with a probe of its own.
PongAnswers(c, rs, brk) == <<Pinged(c, rs, brk)>>

\* Lines 287-289: what the pong handler sends: nothing, it logs.
PongSends(c, rs, brk) == <<>>

\* Lines 287-289, ws.on('pong'): logs.
Pong(c) ==
    /\ Running
    /\ readyState[c] = "OPEN"
    /\ liveness' = [liveness EXCEPT ![c] = "awaiting-probe"]
    /\ last' = Event("pong", c, "")
    /\ out' = PongSends(c, readyState, broken)
    /\ UNCHANGED <<readyState, clients, pingInterval, socket,
                   broken, phase, welcomes, closeRuns, atSignal,
                   pending>>
    /\ UNCHANGED clientVars

\* The socket of an open connection starts failing writes; the server
\* learns of it only through a later 'error' event.
Break(c) ==
    /\ Running
    /\ readyState[c] = "OPEN"
    /\ ~broken[c]
    /\ broken' = [broken EXCEPT ![c] = TRUE]
    /\ last' = Event("break", c, "")
    /\ out' = <<>>
    /\ UNCHANGED <<readyState, clients, pingInterval, socket,
                   phase, welcomes, closeRuns, atSignal,
                   liveness, pending>>
    /\ UNCHANGED clientVars

\* An 'error' event with no listener registered: the emitter throws and
\* the process ends.
AfterErrorUnhandled(ph) == "crashed"

\* Lines 271-273 and 296-299: the process after an 'error' event of a
\* socket or of the server; a listener is registered and it logs.
AfterError(ph) == ph

\* Lines 271-273, ws.on('error'): logs.  The library has moved the socket to
\* CLOSING and is destroying it; its 'close' event follows.
ErrorEvent(c) ==
    /\ Running
    /\ broken[c]
    /\ socket[c] = "up"
    /\ readyState[c] \in {"OPEN", "CLOSING"}
    /\ readyState' = [readyState EXCEPT ![c] = "CLOSING"]
    /\ socket' = [socket EXCEPT ![c] = "half"]
    /\ broken' = [broken EXCEPT ![c] = FALSE]
    /\ phase' = AfterError(phase)
    /\ last' = Event("error", c, "")
    /\ out' = <<>>
    /\ UNCHANGED <<clients, pingInterval, welcomes,
                   closeRuns, atSignal,
                   liveness, pending>>
    /\ UNCHANGED clientVars

\* Lines 296-299, wss.on('error'): logs.
ServerError ==
    /\ phase = "running"
    /\ phase' = AfterError(phase)
    /\ last' = Event("servererror", 0, "")
    /\ out' = <<>>
    /\ UNCHANGED <<readyState, clients, pingInterval, socket, broken,
                   welcomes, closeRuns, atSignal, liveness, pending>>
    /\ UNCHANGED clientVars

\* The peer closes (a close frame, or the connection drops): the library
\* moves the socket to CLOSING and answers; no frame of the peer follows.
PeerClose(c) ==
    /\ Running
    /\ readyState[c] = "OPEN"
    /\ socket[c] = "up"
    /\ pending.conn # c
    /\ readyState' = [readyState EXCEPT ![c] = "CLOSING"]
    /\ socket' = [socket EXCEPT ![c] = "half"]
    /\ broken' = [broken EXCEPT ![c] = FALSE]
    /\ last' = Event("peerclose", c, "")
    /\ out' = <<>>
    /\ UNCHANGED <<clients, pingInterval, phase, welcomes,
                   closeRuns, atSignal,
                   liveness, pending>>
    /\ UNCHANGED clientVars

\* The socket of a closing connection is destroyed: the closing handshake
\* is complete, or the library's close timeout has run out.  The listener
\* stops counting the socket; the socket's 'close' event is still to come.
SocketEnd(c) ==
    /\ Running
    /\ readyState[c] = "CLOSING"
    /\ socket[c] \in {"up", "half"}
    /\ socket' = [socket EXCEPT ![c] = "ended"]
    /\ broken' = [broken EXCEPT ![c] = FALSE]
    /\ pending' = IF pending.conn = c THEN [conn |-> 0, frames |-> <<>>]
                  ELSE pending
    /\ last' = Event("socketend", c, "")
    /\ out' = <<>>
    /\ UNCHANGED <<readyState, clients, pingInterval, phase,
                   welcomes, closeRuns, atSignal, liveness>>
    /\ UNCHANGED clientVars

\* Line 292 left out: the 'close' handler that does not clear the timer.
OnCloseKeepsTimer(c, timers) == timers

\* Lines 291-293, the second 'close' handler: clearInterval(pingInterval).
OnCloseClearInterval(c, timers) == [timers EXCEPT ![c] = FALSE]

\* The 'close' event of a socket that has ended: the library sets CLOSED and
\* takes the socket out of wss.clients, then the handlers of lines 276-278
\* (logs) and 291-293 run.
EmitClose(c) ==
    /\ Running
    /\ readyState[c] = "CLOSING"
    /\ socket[c] = "ended"
    /\ readyState' = [readyState EXCEPT ![c] = "CLOSED"]
    /\ clients' = Unregister(c, clients)
    /\ pingInterval' = OnCloseClearInterval(c, pingInterval)
    /\ closeRuns' = [closeRuns EXCEPT ![c] = @ + 1]
    /\ liveness' = [liveness EXCEPT ![c] = "awaiting-probe"]
    /\ last' = Event("close", c, "")
    /\ out' = <<>>
    /\ UNCHANGED <<socket, broken, phase, welcomes, atSignal,
                   pending>>
    /\ UNCHANGED clientVars

\* Lines 304-306: client.close() on every member of wss.clients; close()
\* moves an OPEN socket to CLOSING and does nothing to a CLOSING one.
CloseAll(cl, rs) ==
    [c \in Conn |-> IF c \in cl /\ rs[c] = "OPEN" THEN "CLOSING" ELSE rs[c]]

\* Lines 302-311, process.on('SIGINT'): close every client, then
\* wss.close(callback), which stops the listener at once.
Sigint ==
    /\ phase = "running"
    /\ readyState' = CloseAll(clients, readyState)
    /\ atSignal' = clients
    /\ phase' = "shutting"
    /\ last' = Event("sigint", 0, "")
    /\ out' = <<>>
    /\ UNCHANGED <<clients, pingInterval, socket, broken,
                   welcomes, closeRuns,
                   liveness, pending>>
    /\ UNCHANGED clientVars

\* Lines 307-310, the callback of wss.close(): 'Server closed' and
\* process.exit(0).  The listener calls it when its last socket has ended;
\* nothing orders it after that socket's own 'close' event.
ServerClosed ==
    /\ phase = "shutting"
    /\ \A c \in Conn : socket[c] \in {"none", "ended"}
    /\ phase' = "exited"
    /\ last' = Event("serverclosed", 0, "")
    /\ out' = <<>>
    /\ UNCHANGED <<readyState, clients, pingInterval, socket,
                   broken, welcomes, closeRuns, atSignal,
                   liveness, pending>>
    /\ UNCHANGED clientVars

Next ==
    \/ \E c \in Conn : Accept(c)
    \/ \E c \in Conn, raw \in RawPayloads : Message(c, raw)
    \/ \E c \in Conn : TimerFire(c)
    \/ \E c \in Conn : Pong(c)
    \/ \E c \in Conn : Break(c)
    \/ \E c \in Conn : ErrorEvent(c)
    \/ ServerError
    \/ \E c \in Conn : PeerClose(c)
    \/ \E c \in Conn : SocketEnd(c)
    \/ \E c \in Conn : EmitClose(c)
    \/ Sigint
    \/ ServerClosed

Spec == Init /\ [][Next]_vars

(***************************************************************************)
(* The example client, websocket-client.js.  The server is its            *)
(* environment: it accepts or refuses, sends frames, closes.               *)
(***************************************************************************)

\* Lines 14-18.
GreetingMsg == [type |-> "greeting", message |-> "Hello from Node.js client"]

\* Lines 25-29, without the timestamp: n stands for `Message #n`.
UpdateMsg(n) == [type |-> "update", message |-> n]

\* One call ws.send(JSON.stringify(data)) of the client as the log records
\* it, with the state the socket was in.
ClientSent(data, st) == [data |-> data, st |-> st]

\* Lines 10-38, ws.on('open'): the greeting, the counter, the timer, and
\* the 'close' listener that will clear the timer.
ClientOpen ==
    /\ clientPhase = "running"
    /\ clientReadyState = "CONNECTING"
    /\ clientReadyState' = "OPEN"
    /\ clientOut' = <<ClientSent(GreetingMsg, "OPEN")>>
    /\ greetings' = greetings + 1
    /\ messageCount' = 0
    /\ messageInterval' = TRUE
    /\ clientLast' = ClientEvent("open", "")
    /\ UNCHANGED <<clientPhase, serverVars>>

\* A timer callback without the test of line 23.
TickGuardAbsent(st) == TRUE

\* Line 23: the test the timer callback makes before it sends.
TickGuard(st) == st = "OPEN"

\* Lines 22-32, the setInterval callback, run every UpdateIntervalMs while
\* the timer is active.
ClientTick ==
    /\ clientPhase = "running"
    /\ messageInterval
    /\ messageCount < MaxUpdates
    /\ IF TickGuard(clientReadyState)
       THEN /\ messageCount' = messageCount + 1
            /\ clientOut' = <<ClientSent(UpdateMsg(messageCount + 1),
                                         clientReadyState)>>
       ELSE /\ messageCount' = messageCount
            /\ clientOut' = <<>>
    /\ clientLast' = ClientEvent("tick", "")
    /\ UNCHANGED <<clientReadyState, messageInterval, greetings,
                   clientPhase, serverVars>>

\* Lines 41-48, ws.on('message'): parses and logs, or logs the raw text.
ClientMessage(raw) ==
    /\ clientPhase = "running"
    /\ clientReadyState = "OPEN"
    /\ clientLast' = ClientEvent("message", raw)
    /\ clientOut' = <<>>
    /\ UNCHANGED <<clientReadyState, messageInterval, messageCount,
                   greetings, clientPhase, serverVars>>

\* Lines 51-53, ws.on('error'): logs.  The connection attempt failed or the
\* socket broke; the library is closing the socket and 'close' follows.
ClientError ==
    /\ clientPhase = "running"
    /\ clientReadyState \in {"CONNECTING", "OPEN"}
    /\ clientReadyState' = "CLOSING"
    /\ clientLast' = ClientEvent("error", "")
    /\ clientOut' = <<>>
    /\ UNCHANGED <<messageInterval, messageCount, greetings,
                   clientPhase, serverVars>>

\* The server closes the connection: the library answers the close frame
\* and the socket is CLOSING until 'close' is emitted.
ClientPeerClose ==
    /\ clientPhase = "running"
    /\ clientReadyState = "OPEN"
    /\ clientReadyState' = "CLOSING"
    /\ clientLast' = ClientEvent("peerclose", "")
    /\ clientOut' = <<>>
    /\ UNCHANGED <<messageInterval, messageCount, greetings,
                   clientPhase, serverVars>>

\* The 'close' event: the listener of lines 56-58 logs, and the listener of
\* lines 35-37, registered if 'open' ran, clears the timer.
ClientClose ==
    /\ clientPhase = "running"
    /\ clientReadyState = "CLOSING"
    /\ clientReadyState' = "CLOSED"
    /\ messageInterval' = FALSE
    /\ clientLast' = ClientEvent("close", "")
    /\ clientOut' = <<>>
    /\ UNCHANGED <<messageCount, greetings, clientPhase, serverVars>>

\* Lines 61-65, process.on('SIGINT'): ws.close(), then process.exit(0).
ClientSigint ==
    /\ clientPhase = "running"
    /\ clientReadyState' = IF clientReadyState \in {"CONNECTING", "OPEN"}
                           THEN "CLOSING" ELSE clientReadyState
    /\ clientPhase' = "exited"
    /\ clientLast' = ClientEvent("sigint", "")
    /\ clientOut' = <<>>
    /\ UNCHANGED <<messageInterval, messageCount, greetings, serverVars>>

ClientNext ==
    \/ ClientOpen
    \/ ClientTick
    \/ \E raw \in RawPayloads : ClientMessage(raw)
    \/ ClientError
    \/ ClientPeerClose
    \/ ClientClose
    \/ ClientSigint

ClientSpec == Init /\ [][ClientNext]_vars

\* The server with frames that arrive in bursts; the liveness timer and
\* write failures are left out.
BurstNext ==
    \/ \E c \in Conn : Accept(c)
    \/ \E c \in Conn, raw \in RawPayloads : Message(c, raw)
    \/ \E c \in Conn, m1, m2 \in RawPayloads : ArriveBurst(c, m1, m2)
    \/ HandlePending
    \/ \E c \in Conn : PeerClose(c)
    \/ \E c \in Conn : SocketEnd(c)
    \/ \E c \in Conn : EmitClose(c)
    \/ Sigint
    \/ ServerClosed

BurstSpec == Init /\ [][BurstNext]_vars

(***************************************************************************)
(* Vocabulary of the properties.                                           *)
(***************************************************************************)

\* The raw frames that are JSON texts, and the value each one denotes.
ValidJSON == {"{\"a\":1}", "{\"x\":2}"}

Denotes(raw) == IF raw = "{\"a\":1}" THEN <<"a", 1>> ELSE <<"x", 2>>

\* Positions of the log holding a notification of the given type.
Of(type) == {i \in DOMAIN out : out[i].frame = "text" /\ out[i].data.type = type}

\* The connections other than c that are OPEN.
OtherOpen(c) == {d \in Conn \ {c} : readyState[d] = "OPEN"}

\* The last step handled a JSON frame / a frame that is not JSON.
HandledValid == last.op = "message" /\ last.raw \in ValidJSON

HandledInvalid == last.op = "message" /\ last.raw \notin ValidJSON

\* C1: a valid JSON payload P from an open connection C, with N other
\* connections open, gets exactly one echo, sent to C, and exactly N
\* broadcasts, one to each other open connection and none to C, all
\* carrying P.
C1_EchoAndBroadcast ==
    (HandledValid /\ last.pre = "OPEN") =>
        LET C == last.conn
            P == Denotes(last.raw)
        IN /\ Cardinality(Of("echo")) = 1
           /\ \A i \in Of("echo") : out[i].to = C /\ out[i].data.original = P
           /\ Cardinality(Of("broadcast")) = Cardinality(OtherOpen(C))
           /\ \A d \in OtherOpen(C) :
                  Cardinality({i \in Of("broadcast") : out[i].to = d}) = 1
           /\ \A i \in Of("broadcast") :
                  out[i].to \in OtherOpen(C) /\ out[i].data.message = P

\* C1's case: a valid payload from an open connection, handled while two
\* other connections are open.
C1_Witness ==
    /\ HandledValid
    /\ last.pre = "OPEN"
    /\ Cardinality(OtherOpen(last.conn)) = 2
    /\ Len(out) = 3

\* C2: a payload that is not JSON gets exactly one error notification, with
\* the message "Invalid JSON format", sent to its sender C; no echo and no
\* broadcast goes to anyone; C stays as it was, open and registered.
C2_InvalidJSON ==
    HandledInvalid =>
        /\ Len(out) = 1
        /\ out[1].frame = "text"
        /\ out[1].to = last.conn
        /\ out[1].data.type = "error"
        /\ out[1].data.message = "Invalid JSON format"
        /\ Of("echo") = {} /\ Of("broadcast") = {}
        /\ readyState[last.conn] = last.pre
        /\ last.conn \in clients
        /\ last.pre = "OPEN" => readyState[last.conn] = "OPEN"

\* C2's case: a frame that is not JSON, from an open connection, while
\* another connection is open.
C2_Witness ==
    /\ HandledInvalid
    /\ last.pre = "OPEN"
    /\ OtherOpen(last.conn) # {}
    /\ out # <<>>

\* C3: when a broadcast send fails for one recipient, every other open
\* connection that is not the sender and whose socket works still gets the
\* broadcast of that message.
C3_FailureIsolated ==
    (HandledValid /\ \E i \in Of("broadcast") : out[i].result # "delivered") =>
        \A d \in OtherOpen(last.conn) :
            \E i \in Of("broadcast") :
                /\ out[i].to = d
                /\ out[i].data.message = Denotes(last.raw)
                /\ ~broken[d] => out[i].result = "delivered"

\* C3's case: the send to one recipient failed and a recipient visited after
\* it got the broadcast.
C3_Witness ==
    /\ HandledValid
    /\ \E i, j \in Of("broadcast") :
           i < j /\ out[i].result = "lost" /\ out[j].result = "delivered"

\* C4: an error notification goes only to the sender of a frame that failed
\* to parse; the sender of valid JSON gets none, also when its echo or a
\* broadcast send failed.
C4_ErrorOnlyOnParseFailure ==
    \A i \in Of("error") : HandledInvalid /\ out[i].to = last.conn

\* C4's case: valid JSON handled while the echo or a broadcast did not reach
\* its target.
C4_Witness ==
    /\ HandledValid
    /\ \E i \in Of("echo") : out[i].result # "delivered"
    /\ \E i \in Of("broadcast") : out[i].result # "delivered"
    /\ Of("error") = {}

\* C5: the echo of a message is attempted before any broadcast send of that
\* message: every broadcast in the log comes after the echo to the sender.
C5_EchoBeforeBroadcast ==
    \A i \in Of("broadcast") :
        /\ last.op = "message"
        /\ \E j \in Of("echo") :
               /\ j < i
               /\ out[j].to = last.conn
               /\ out[j].data.original = out[i].data.message

\* C5's case: a message whose broadcast went to two recipients.
C5_Witness ==
    /\ last.op = "message"
    /\ Cardinality(Of("broadcast")) = 2

\* C6: every accepted connection is sent exactly one welcome in its
\* lifetime, by the handler that accepts it and to it alone; accepting a
\* connection sends nothing to any other connection.
C6_OneWelcome ==
    /\ \A c \in Conn :
           welcomes[c] = IF readyState[c] = "CONNECTING" THEN 0 ELSE 1
    /\ \A i \in Of("welcome") : last.op = "connection" /\ out[i].to = last.conn
    /\ last.op = "connection" =>
           /\ Cardinality(Of("welcome")) = 1
           /\ \A i \in DOMAIN out : out[i].to = last.conn

\* C6's case: a connection accepted while another is open and a third has
\* already been closed.
C6_Witness ==
    /\ last.op = "connection"
    /\ OtherOpen(last.conn) # {}
    /\ \E d \in Conn : readyState[d] = "CLOSED" /\ welcomes[d] = 1

\* C7: once the close handlers of a connection have run, its timer is not
\* active and no probe is sent to it.
C7_CloseCancelsTimer ==
    \A c \in Conn :
        closeRuns[c] > 0 =>
            /\ ~pingInterval[c]
            /\ \A i \in DOMAIN out : ~(out[i].frame = "ping" /\ out[i].to = c)

\* C7's case: a timer fires and pings after another connection's close
\* handlers have run.
C7_Witness ==
    /\ last.op = "timer"
    /\ out # <<>>
    /\ \E c \in Conn : closeRuns[c] > 0 /\ readyState[c] = "CLOSED"

\* C8 (its last clause): shutdown completion, the 'Server closed' callback
\* and the exit of the process, comes only after every connection that was
\* registered when the signal arrived has finished its close path: its
\* close handlers have run, its timer is cancelled, it is unregistered.
C8_ExitAfterClosePaths ==
    phase = "exited" =>
        \A c \in atSignal :
            closeRuns[c] = 1 /\ ~pingInterval[c] /\ c \notin clients

\* C9: a timer callback runs when the interval of 30 units of 1000 ms has
\* passed, and it issues a probe exactly when its connection is OPEN; a
\* probe is a ping control frame without payload, issued only by the timer
\* of the connection it goes to, and only to an OPEN connection.
C9_ProbeIffOpen ==
    /\ last.op = "timer" =>
           /\ last.at = 30 * 1000
           /\ Len(out) <= 1
           /\ last.pre = "OPEN" <=>
                  \E i \in DOMAIN out :
                      out[i].frame = "ping" /\ out[i].to = last.conn
    /\ \A i \in DOMAIN out :
           out[i].frame = "ping" =>
               /\ last.op = "timer"
               /\ out[i].to = last.conn
               /\ out[i].st = "OPEN"
               /\ out[i].data.type = "none"

\* C9's case: the timer of a connection that is CLOSING fires and issues
\* nothing, while another connection is open.
C9_Witness ==
    /\ last.op = "timer"
    /\ last.pre = "CLOSING"
    /\ out = <<>>
    /\ OtherOpen(last.conn) # {}

\* C10: no notification (welcome, echo, broadcast, error) is sent on a
\* connection that is not OPEN.
C10_NoSendUnlessOpen ==
    \A i \in DOMAIN out : out[i].frame = "text" => out[i].st = "OPEN"

\* C11: the close path of a connection (timer cancelled, unregistered)
\* takes effect exactly once, whichever of remote close, transport error
\* and shutdown signal triggers it: never twice, and never skipped, so when
\* the process has ended every connection it accepted has been through it.
C11_ClosePathExactlyOnce ==
    /\ \A c \in Conn : closeRuns[c] <= 1
    /\ \A c \in Conn : readyState[c] = "CLOSED" <=> closeRuns[c] = 1
    /\ phase = "exited" =>
           \A c \in Conn : readyState[c] # "CONNECTING" => closeRuns[c] = 1

\* C12: in every reachable state the registry holds exactly the connections
\* that were accepted and whose close path has not run: every OPEN
\* connection is a member, no connection whose close path has run is one,
\* and the iteration over the registry visits no connection twice.
C12_RegistryMirrorsOpen ==
    /\ clients = {c \in Conn : readyState[c] \in {"OPEN", "CLOSING"}}
    /\ clients = {c \in Conn : readyState[c] # "CONNECTING" /\ closeRuns[c] = 0}
    /\ \A c \in Conn : readyState[c] = "OPEN" => c \in clients
    /\ \A c \in Conn : closeRuns[c] > 0 => c \notin clients
    /\ LET order == ClientOrder(clients)
       IN \A i, j \in DOMAIN order : i # j => order[i] # order[j]

\* C12's case: an open member, a closing member and a connection that has
\* left the registry through its close path.
C12_Witness ==
    /\ \E c \in clients : readyState[c] = "OPEN"
    /\ \E c \in clients : readyState[c] = "CLOSING"
    /\ \E c \in Conn : closeRuns[c] = 1 /\ c \notin clients

\* A step that accepts and registers nothing.
NothingAccepted ==
    /\ clients' \subseteq clients
    /\ last'.op # "connection"
    /\ \A c \in Conn : readyState[c] = "CONNECTING"
                          => readyState'[c] = "CONNECTING"

\* C13: once the shutdown signal has been handled no connection is accepted
\* or registered any more: the registry only shrinks, a connection not yet
\* accepted stays so, and every connection still registered was registered
\* when the signal's pass closed the registry, so it is no longer OPEN.
C13_NoAcceptAfterSignal ==
    /\ [](phase \in {"shutting", "exited"} =>
             (/\ clients \subseteq atSignal
              /\ \A c \in clients : readyState[c] # "OPEN"))
    /\ [][(phase \in {"shutting", "exited"}) => NothingAccepted]_vars

\* C13's case: the signal's pass closed a registered connection, the server
\* has taken a further step, and a connection is still waiting to connect.
C13_Witness ==
    /\ phase = "shutting"
    /\ atSignal # {}
    /\ last.op \notin {"sigint", "connection"}
    /\ \E c \in Conn : readyState[c] = "CONNECTING"

\* C14: a connection whose transport has signalled close, or an error that
\* ended the socket, has its liveness timer cancelled and is removed from
\* the registry before the run is over: when the process has ended, no
\* connection with an ended socket still has its timer or its registry
\* entry.
C14_TransportEndCleansUp ==
    phase = "exited" =>
        \A c \in Conn :
            socket[c] = "ended" => ~pingInterval[c] /\ c \notin clients

\* Positions of the next step's log that carry the value of frame raw, as
\* an echo to connection c or as a broadcast to another connection.
CarriesNext(c, raw) ==
    {i \in DOMAIN out' :
        /\ out'[i].frame = "text"
        /\ \/ /\ out'[i].data.type = "echo"
              /\ out'[i].to = c
              /\ out'[i].data.original = Denotes(raw)
           \/ /\ out'[i].data.type = "broadcast"
              /\ out'[i].to # c
              /\ out'[i].data.message = Denotes(raw)}

\* A step that handles a message of the connection whose frames are
\* pending handles the frame that arrived first and leaves the later ones
\* pending, in their order; its echo is that frame's, and it sends neither
\* the echo nor a broadcast of a frame that arrived later.
OldestFirst ==
    (pending.frames # <<>> /\ last'.op = "message"
                           /\ last'.conn = pending.conn) =>
        LET C == pending.conn
            m1 == Head(pending.frames)
            later == Tail(pending.frames)
        IN /\ last'.raw = m1
           /\ pending'.frames = later
           /\ m1 \in ValidJSON =>
                  \E i \in CarriesNext(C, m1) : out'[i].to = C
           /\ \A k \in DOMAIN later :
                  later[k] \in ValidJSON => CarriesNext(C, later[k]) = {}

\* C15: the messages of one connection are processed in arrival order: of
\* two valid messages m1 then m2 of connection C, m1 is handled in an
\* earlier step than m2, so the echo of m1 goes to C before the echo of
\* m2, and every other connection gets the broadcast of m1 before that of
\* m2.
C15_ArrivalOrder == [][OldestFirst]_vars

\* C15's case: of a burst of two valid messages the first has been handled,
\* its echo sent and its broadcast delivered to another connection, while
\* the second is still pending.
C15_Witness ==
    /\ last.op = "message"
    /\ last.conn = pending.conn
    /\ last.raw \in ValidJSON
    /\ Len(pending.frames) = 1
    /\ pending.frames[1] \in ValidJSON
    /\ \E i \in Of("echo") : out[i].to = last.conn
    /\ \E i \in Of("broadcast") : out[i].result = "delivered"

\* A pong step resets the liveness state of its connection and changes
\* nothing else that can be seen.
PongOnlyResets ==
    last'.op = "pong" =>
        /\ liveness'[last'.conn] = "awaiting-probe"
        /\ \A d \in Conn \ {last'.conn} : liveness'[d] = liveness[d]
        /\ out' = <<>>
        /\ clients' = clients
        /\ pingInterval' = pingInterval
        /\ readyState' = readyState
        /\ socket' = socket
        /\ phase' = phase
        /\ welcomes' = welcomes
        /\ closeRuns' = closeRuns

\* C16: a pong event on a connection returns that connection's liveness
\* state to awaiting-probe and has no other visible effect: nothing is sent
\* to any connection, the registry is unchanged, and the timers and the
\* open/closed states are unchanged.
C16_PongOnlyResets == [][PongOnlyResets]_vars

\* C16's case: a pong has arrived for an outstanding probe of a connection
\* whose timer runs, while the probe of another connection is outstanding.
C16_Witness ==
    /\ last.op = "pong"
    /\ last.live = "probe-outstanding"
    /\ liveness[last.conn] = "awaiting-probe"
    /\ pingInterval[last.conn]
    /\ \E d \in clients \ {last.conn} : liveness[d] = "probe-outstanding"

\* A timer step closes, unregisters and stops nothing, and a connection
\* leaves OPEN by the server's own doing (its socket still up) only in the
\* step of the shutdown signal.
NoEviction ==
    /\ last'.op = "timer" =>
           /\ readyState' = readyState
           /\ clients' = clients
           /\ pingInterval' = pingInterval
           /\ socket' = socket
    /\ \A c \in Conn :
           (readyState[c] = "OPEN" /\ readyState'[c] # "OPEN"
                                   /\ socket'[c] = "up")
               => last'.op = "sigint"

\* C17: the server never disconnects a peer for failing to acknowledge
\* probes: however many probes go unacknowledged in a row the connection
\* stays open and registered, and only the shutdown sequence closes a
\* connection from the server's side.
C17_NoEviction == [][NoEviction]_vars

\* C17's case: a probe was sent to a connection whose previous probe was
\* still unacknowledged, and the connection is open, registered, and its
\* timer runs.
C17_Witness ==
    /\ last.op = "timer"
    /\ last.live = "probe-outstanding"
    /\ out # <<>>
    /\ readyState[last.conn] = "OPEN"
    /\ last.conn \in clients
    /\ pingInterval[last.conn]
    /\ liveness[last.conn] = "probe-outstanding"

\* The next step is a failure of one connection or of the listener: a frame
\* that is not JSON, a write failure, an 'error' event, the peer's close,
\* the end of the socket, the 'close' event.
FailureStep ==
    \/ last'.op \in {"break", "error", "servererror", "peerclose",
                     "socketend", "close"}
    \/ last'.op = "message" /\ last'.raw \notin ValidJSON

\* A failure step leaves the session of every other connection as it was,
\* sends them nothing, and leaves the process and its listener as they were.
Contained ==
    FailureStep =>
        /\ phase' = phase
        /\ \A i \in DOMAIN out' : out'[i].to = last'.conn
        /\ \A d \in Conn \ {last'.conn} :
               /\ readyState'[d] = readyState[d]
               /\ d \in clients' <=> d \in clients
               /\ pingInterval'[d] = pingInterval[d]
               /\ socket'[d] = socket[d]
               /\ broken'[d] = broken[d]
               /\ liveness'[d] = liveness[d]
               /\ welcomes'[d] = welcomes[d]
               /\ closeRuns'[d] = closeRuns[d]

\* C18: a malformed payload, a transport error or a disconnection of one
\* connection leaves every other connection's session unchanged: the others
\* stay open and registered and their timers keep running, and the listener
\* keeps accepting.
C18_Contained == [][Contained]_vars

\* C18's case: a connection's transport error has just been reported while
\* another connection was closed earlier, a third is open and registered
\* with its timer running, and the listener is accepting.
C18_Witness ==
    /\ last.op = "error"
    /\ phase = "running"
    /\ \E d \in Conn \ {last.conn} : closeRuns[d] = 1
    /\ \E d \in clients \ {last.conn} :
           readyState[d] = "OPEN" /\ pingInterval[d]

\* C19: the welcome is the first notification a connection gets: whenever
\* an echo, a broadcast or an error notification is sent to a connection,
\* its welcome has been sent already, and the accept step itself sends the
\* welcome ahead of anything else.
C19_WelcomeFirst ==
    /\ \A i \in DOMAIN out :
           (out[i].frame = "text" /\ out[i].data.type # "welcome")
               => welcomes[out[i].to] >= 1
    /\ last.op = "connection" =>
           /\ out # <<>>
           /\ out[1].to = last.conn
           /\ out[1].frame = "text"
           /\ out[1].data.type = "welcome"

\* C19's case: a broadcast is delivered to a connection that was accepted
\* after the sender, and that connection has had its welcome.
C19_Witness ==
    /\ last.op = "message"
    /\ \E i \in Of("broadcast") :
           /\ out[i].to > last.conn
           /\ out[i].result = "delivered"
           /\ welcomes[out[i].to] = 1

\* C20 (example client): the client sends only while its socket is OPEN.
\* The greeting is sent once, by the 'open' handler; a tick sends the next
\* numbered update if the socket is OPEN and nothing otherwise; once the
\* socket is CLOSED the timer is cancelled, and no step after the socket
\* has left OPEN sends anything.
C20_ClientSendsOnlyWhenOpen ==
    /\ \A i \in DOMAIN clientOut : clientOut[i].st = "OPEN"
    /\ greetings <= 1
    /\ clientLast.op = "open" => greetings = 1
    /\ clientReadyState = "CONNECTING" => greetings = 0
    /\ (\E i \in DOMAIN clientOut : clientOut[i].data.type = "greeting")
           <=> clientLast.op = "open"
    /\ clientLast.op = "tick" =>
           IF clientLast.pre = "OPEN"
           THEN /\ messageCount = clientLast.count + 1
                /\ clientOut = <<[data |-> [type |-> "update",
                                            message |-> messageCount],
                                  st |-> "OPEN"]>>
           ELSE /\ messageCount = clientLast.count
                /\ clientOut = <<>>
    /\ clientLast.op \notin {"open", "tick"} => clientOut = <<>>
    /\ clientReadyState = "CLOSED" => ~messageInterval
    /\ clientReadyState # "OPEN" => clientOut = <<>>

\* C20's case: the timer has fired on a socket that had left OPEN after two
\* updates, and it sent nothing.
C20_Witness ==
    /\ clientLast.op = "tick"
    /\ clientLast.pre = "CLOSING"
    /\ messageCount = 2
    /\ greetings = 1
    /\ messageInterval
    /\ clientOut = <<>>

====
